---- MODULE Spec2Model ----
(***************************************************************************)
(* PyPTZ: three camera facades (ONVIFCamera, SUNAPICamera, VAPIXCamera)    *)
(* driving one PTZ device.                                                  *)
(*                                                                          *)
(* Angles and zoom factors are fixed-point numbers in hundredths            *)
(* (359.98 degrees is 35998, zoom 1x is 100), computed exactly.  The        *)
(* Python code computes in binary64; on two-decimal readings its            *)
(* comparisons agree with the exact ones except that float('359.98') and    *)
(* float('360.02') lie 0.0199999999999818 from 360, so the code reads them  *)
(* as "nearer than 0.02".  No formula below depends on those two readings.  *)
(*                                                                          *)
(* Python's None is the empty tuple, a present value v is <<v>>.            *)
(***************************************************************************)
EXTENDS Integers, Sequences, FiniteSets, TLC

None == <<>>
Some(v) == <<v>>

Abs(x) == IF x < 0 THEN -x ELSE x

(***************************************************************************)
(* Program constants, in hundredths.                                        *)
(***************************************************************************)
PanEps == 2
FullTurn == 36000
TiltMax == 9000
TiltMin == -2000
ZoomMax == 4000
ZoomMin == 100

(***************************************************************************)
(* Bounded input sets.                                                      *)
(***************************************************************************)
Callers == {1, 2}
StatusCodes == {200, 204, 401, 500}

PanReadings == {0, 1, 2, 35800, 35998, 35999}
TiltReadings == {-1000, 6000, 8000}
ZoomReadings == {100, 3500}

PanDeltas == {None, Some(-100), Some(200), Some(500), Some(40000)}
TiltDeltas == {None, Some(-10000), Some(1500)}
ZoomDeltas == {None, Some(-1000), Some(1000)}

\* focus and mode arguments a caller passes
ModeInputs == {None, Some("Stop"), Some("Near"), Some("Pan"), Some("Start"),
               Some("Bogus")}

\* preset names a caller passes, and the names the device may hold (a preset
\* of the device need not have a name)
PresetNames == {"Gate", "None"}
DeviceNames == {None} \cup {Some(n) : n \in PresetNames}

\* the number of presets the device has room for
MaxPresets == 3

VARIABLES
    facade,      \* which class the camera object is an instance of
    interleave,  \* whether calls of different callers may overlap
    devPan, devTilt, devZoom,   \* the device's position
    devMoving,   \* whether an accepted move has the head in motion
    devPresets,  \* the device's preset list, in the device's order
    pc,          \* per caller: idle, move (status read), scan (list fetched),
                 \* home (home position set), done, raised, exited
    call,        \* per caller: the operation in progress and its arguments
    snap,        \* per caller: what the first round trip of the call read
    sent,        \* per caller: the requests the call has issued, in order
    reported,    \* per caller: what the call printed
    ret,         \* per caller: the value the call returned
    status,      \* per caller: the status code of the last response, 0 before any
    body,        \* per caller: the text of the last response
    lastCall     \* the preset call that completed last: operation, name, outcome
                 \* and the number of entries of the list it fetched that matched

vars == <<facade, interleave, devPan, devTilt, devZoom, devMoving, devPresets,
          pc, call, snap, sent, reported, ret, status, body, lastCall>>

devVars == <<devPan, devTilt, devZoom, devMoving, devPresets>>

(***************************************************************************)
(* Records.                                                                 *)
(***************************************************************************)
Request(api, pan, tilt, zoom, arg) ==
    [api |-> api, Pan |-> pan, Tilt |-> tilt, Zoom |-> zoom, Arg |-> arg]

Call(opname, pan, tilt, zoom, arg) ==
    [op |-> opname, Pan |-> pan, Tilt |-> tilt, Zoom |-> zoom, Arg |-> arg]

NoCall == Call("", None, None, None, None)

\* the operations that address a preset by its name
PresetOps == {"set_preset", "remove_preset", "go_to_preset"}

\* kind: "none" (Python None), "response", "status" (a tuple), "presets" (a list)
Ret(kind, code, value) == [kind |-> kind, code |-> code, value |-> value]

NoRet == Ret("", 0, <<>>)
RetNone == Ret("none", 0, <<>>)

(***************************************************************************)
(* The device's side of the HTTP exchange.  A body is a sequence of         *)
(* whitespace-separated tokens; a token is the sequence of its '='-         *)
(* separated parts, so "Pan=359.99" is <<"Pan", 35999>>.                    *)
(***************************************************************************)
\* the zoom pulse is decoded and returned but never used: it is reported as 0
StatusText == << <<"Pan", devPan>>, <<"Tilt", devTilt>>, <<"Zoom", devZoom>>,
                 <<"ZoomPulse", 0>> >>

ErrorBody(code) == << <<"<html>">>, <<"Error">>, <<"</html>">> >>

Response(code, okText) ==
    [status_code |-> code,
     text |-> IF code = 200 THEN okText
              ELSE IF code = 204 THEN <<>>
              ELSE ErrorBody(code)]

IsTag(tok) == tok \in { <<"<html>">>, <<"</html>">> }

\* BeautifulSoup(...).get_text(): the body without its markup
get_text(text) == SelectSeq(text, LAMBDA tok : ~IsTag(tok))

Accepted(code) == code \in {200, 204}

(***************************************************************************)
(* SUNAPICamera.__cmd: what the sender does with a response.  print('%s',   *)
(* text) prints its two arguments; exit(1) ends the process.                *)
(***************************************************************************)
\* the sender without the exit on 401
SUNAPI_cmd_no_exit(response) ==
    IF (response.status_code # 200) /\ (response.status_code # 204)
    THEN [report |-> << <<"%s", get_text(response.text)>> >>, exits |-> FALSE]
    ELSE [report |-> <<>>, exits |-> FALSE]

SUNAPI_cmd(response) ==
    IF (response.status_code # 200) /\ (response.status_code # 204)
    THEN [report |-> << <<"%s", get_text(response.text)>> >>,
          exits |-> response.status_code = 401]
    ELSE [report |-> <<>>, exits |-> FALSE]

(***************************************************************************)
(* VAPIXCamera.__cmd.                                                       *)
(***************************************************************************)
VAPIX_cmd(response) ==
    IF (response.status_code # 200) /\ (response.status_code # 204)
    THEN [report |-> << <<"%s", get_text(response.text)>> >>,
          exits |-> response.status_code = 401]
    ELSE [report |-> <<>>, exits |-> FALSE]

(***************************************************************************)
(* SUNAPICamera.get_ptz_status: decoding of the status text.                *)
(***************************************************************************)
Parses(text) == \A i \in 1..4 : Len(text) >= i /\ Len(text[i]) >= 2

Field(text, i) == text[i + 1][2]

\* the normalisation without its test against the full turn
NormalizePan_zero_only(current_pan) ==
    IF current_pan < PanEps THEN 0 ELSE current_pan

NormalizePan(current_pan) ==
    IF Abs(FullTurn - current_pan) < PanEps \/ current_pan < PanEps
    THEN 0
    ELSE current_pan

SUNAPI_get_ptz_status(text) ==
    << NormalizePan(Field(text, 0)), Field(text, 1), Field(text, 2), Field(text, 3) >>

(***************************************************************************)
(* SUNAPICamera.relative_move: the clamping of the deltas and the dispatch. *)
(***************************************************************************)
\* the pan delta forwarded without the wrap
ClampPan_no_wrap(current_pan, pan) == pan

ClampPan(current_pan, pan) ==
    IF pan # None
    THEN IF (current_pan + pan[1]) > FullTurn THEN Some(pan[1] - FullTurn)
         ELSE IF (current_pan + pan[1]) < 0 THEN Some(FullTurn + pan[1])
         ELSE pan
    ELSE pan

\* the lower tilt clamp taken as the distance to the minimum
ClampTilt_signed(current_tilt, tilt) ==
    IF tilt # None
    THEN IF TiltMax < (current_tilt + tilt[1]) THEN Some(TiltMax - current_tilt)
         ELSE IF (current_tilt + tilt[1]) < TiltMin THEN Some(TiltMin - current_tilt)
         ELSE tilt
    ELSE tilt

ClampTilt(current_tilt, tilt) ==
    IF tilt # None
    THEN IF TiltMax < (current_tilt + tilt[1]) THEN Some(TiltMax - current_tilt)
         ELSE IF (current_tilt + tilt[1]) < TiltMin THEN Some(TiltMin + Abs(current_tilt))
         ELSE tilt
    ELSE tilt

\* the zoom clamp without its lower bound
ClampZoom_upper_only(current_zoom, zoom) ==
    IF zoom # None
    THEN IF ZoomMax < (current_zoom + zoom[1]) THEN Some(ZoomMax - current_zoom)
         ELSE zoom
    ELSE zoom

ClampZoom(current_zoom, zoom) ==
    IF zoom # None
    THEN IF ZoomMax < (current_zoom + zoom[1]) THEN Some(ZoomMax - current_zoom)
         ELSE IF (current_zoom + zoom[1]) < ZoomMin THEN Some(ZoomMin - current_zoom)
         ELSE zoom
    ELSE zoom

\* the dispatch with its branches exchanged
Dispatch_swapped(current_pan) == IF current_pan = 0 THEN "relative" ELSE "absolute"

Dispatch(current_pan) == IF current_pan # 0 THEN "relative" ELSE "absolute"

\* the move built as the other two facades build theirs: the arguments as
\* they came
RelativeMoveRequest_passthrough(current, args) ==
    Request(Dispatch(current[1]), args.Pan, args.Tilt, args.Zoom, None)

\* the move built from the position the device has now, not from the
\* position the call read
RelativeMoveRequest_fresh(current, args) ==
    Request(Dispatch(NormalizePan(devPan)),
            ClampPan(NormalizePan(devPan), args.Pan),
            ClampTilt(devTilt, args.Tilt),
            ClampZoom(devZoom, args.Zoom),
            None)

RelativeMoveRequest(current, args) ==
    Request(Dispatch(current[1]),
            ClampPan(current[1], args.Pan),
            ClampTilt(current[2], args.Tilt),
            ClampZoom(current[3], args.Zoom),
            None)

(***************************************************************************)
(* The device's reaction to a move.  The response to an accepted move comes *)
(* back while the head is still turning, and the motion ends at a position  *)
(* of the device's choosing.  A position is seen only through a status      *)
(* query, so the end of a motion is placed where no caller holds a result   *)
(* (it commutes with Return) and, when calls do not overlap, between two    *)
(* calls.                                                                   *)
(***************************************************************************)
Moves(req) == req.Pan # None \/ req.Tilt # None \/ req.Zoom # None

DeviceMoves(req, code) ==
    /\ devMoving' = (devMoving \/ (Accepted(code) /\ Moves(req)))
    /\ UNCHANGED <<devPan, devTilt, devZoom, devPresets>>

DeviceSettles ==
    /\ devMoving
    /\ \A c \in Callers : pc[c] \notin {"done", "raised"}
    /\ interleave \/ \A c \in Callers : pc[c] \in {"idle", "exited"}
    /\ devPan' \in PanReadings
    /\ devTilt' \in TiltReadings
    /\ devZoom' \in ZoomReadings
    /\ devMoving' = FALSE
    /\ UNCHANGED <<facade, interleave, devPresets, pc, call, snap, sent, reported,
                   ret, status, body, lastCall>>

(***************************************************************************)
(* Calls.                                                                   *)
(***************************************************************************)
CanBegin(c) ==
    /\ pc[c] = "idle"
    /\ interleave \/ \A q \in Callers \ {c} : pc[q] \in {"idle", "exited"}

\* a sender that sends its request a second time
AfterCmd_resend(c, cmd, response, req, next, value) ==
    /\ status' = [status EXCEPT ![c] = response.status_code]
    /\ body' = [body EXCEPT ![c] = IF cmd.exits THEN <<>> ELSE response.text]
    /\ reported' = [reported EXCEPT ![c] = @ \o cmd.report]
    /\ pc' = [pc EXCEPT ![c] = IF cmd.exits THEN "exited" ELSE next]
    /\ ret' = [ret EXCEPT ![c] = IF cmd.exits \/ next # "done" THEN NoRet ELSE value]
    /\ sent' = [sent EXCEPT ![c] = IF cmd.exits THEN <<>> ELSE Append(Append(@, req), req)]

\* the end of a round trip made through a command sender: the caller is left
\* at `next` with `value` unless the sender ended the process, which leaves
\* nothing of the call but what it printed
AfterCmd(c, cmd, response, req, next, value) ==
    /\ status' = [status EXCEPT ![c] = response.status_code]
    /\ body' = [body EXCEPT ![c] = IF cmd.exits THEN <<>> ELSE response.text]
    /\ reported' = [reported EXCEPT ![c] = @ \o cmd.report]
    /\ pc' = [pc EXCEPT ![c] = IF cmd.exits THEN "exited" ELSE next]
    /\ ret' = [ret EXCEPT ![c] = IF cmd.exits \/ next # "done" THEN NoRet ELSE value]
    /\ sent' = [sent EXCEPT ![c] = IF cmd.exits THEN <<>> ELSE Append(@, req)]

\* SUNAPICamera.get_ptz_status as a call of its own
SUNAPI_get_ptz_status_call(c, code) ==
    LET req == Request("query", None, None, None, None)
        response == Response(code, StatusText)
        cmd == SUNAPI_cmd(response)
        ok == Parses(response.text)
    IN  /\ facade = "sunapi"
        /\ CanBegin(c)
        /\ call' = [call EXCEPT ![c] =
                        IF cmd.exits THEN NoCall
                        ELSE Call("get_ptz_status", None, None, None, None)]
        /\ AfterCmd(c, cmd, response, req, IF ok THEN "done" ELSE "raised",
                    IF ok THEN Ret("status", 0, SUNAPI_get_ptz_status(response.text))
                    ELSE NoRet)
        /\ UNCHANGED <<facade, interleave, devVars, snap, lastCall>>

\* SUNAPICamera.relative_move, up to the return of get_ptz_status (an exception
\* raised by the decoding unwinds the call, arguments included)
SUNAPI_relative_move_status(c, pan, tilt, zoom, code) ==
    LET req == Request("query", None, None, None, None)
        response == Response(code, StatusText)
        cmd == SUNAPI_cmd(response)
        ok == Parses(response.text)
    IN  /\ facade = "sunapi"
        /\ CanBegin(c)
        /\ call' = [call EXCEPT ![c] =
                        IF cmd.exits THEN NoCall
                        ELSE IF ok THEN Call("relative_move", pan, tilt, zoom, None)
                        ELSE Call("relative_move", None, None, None, None)]
        /\ snap' = [snap EXCEPT ![c] =
                        IF ok /\ ~cmd.exits THEN SUNAPI_get_ptz_status(response.text)
                        ELSE None]
        /\ AfterCmd(c, cmd, response, req, IF ok THEN "move" ELSE "raised", NoRet)
        /\ UNCHANGED <<facade, interleave, devVars, lastCall>>

\* SUNAPICamera.relative_move, from the clamping to the return
SUNAPI_relative_move_send(c, code) ==
    LET req == RelativeMoveRequest(snap[c], call[c])
        response == Response(code, << <<"OK">> >>)
        cmd == SUNAPI_cmd(response)
    IN  /\ facade = "sunapi"
        /\ pc[c] = "move"
        /\ call[c].op = "relative_move"
        /\ DeviceMoves(req, code)
        /\ call' = [call EXCEPT ![c] = IF cmd.exits THEN NoCall ELSE @]
        /\ snap' = [snap EXCEPT ![c] = IF cmd.exits THEN None ELSE @]
        /\ AfterCmd(c, cmd, response, req, "done", Ret("response", code, response.text))
        /\ UNCHANGED <<facade, interleave, lastCall>>

(***************************************************************************)
(* SUNAPICamera: the operations that take a focus or mode out of a fixed    *)
(* set.  Their other arguments (speeds, channel, group, tour, trace) go     *)
(* into the payload as they are and are left out here.                      *)
(***************************************************************************)
ContinuousFocus == {Some("Near"), Some("Far"), Some("Stop"), None}
SwingModes == {Some("Pan"), Some("Tilt"), Some("PanTilt"), Some("Stop"), None}
StartStop == {Some("Start"), Some("Stop"), None}

\* the check left out: every value is let through
Allowed_any(opname) ==
    ContinuousFocus \cup SwingModes \cup StartStop \cup {Some("Bogus")}

Allowed(opname) ==
    IF opname = "continuous_move" THEN ContinuousFocus
    ELSE IF opname = "swing_control" THEN SwingModes
    ELSE StartStop

Checked(c, opname, msubmenu, mode, code) ==
    LET req == Request(msubmenu, None, None, None, mode)
        response == Response(code, << <<"OK">> >>)
        cmd == SUNAPI_cmd(response)
    IN  /\ facade = "sunapi"
        /\ CanBegin(c)
        /\ snap' = snap
        /\ IF mode \notin Allowed(opname)
           THEN /\ call' = [call EXCEPT ![c] = Call(opname, None, None, None, mode)]
                /\ pc' = [pc EXCEPT ![c] = "raised"]
                /\ UNCHANGED <<sent, reported, ret, status, body>>
           ELSE /\ call' = [call EXCEPT ![c] =
                                IF cmd.exits THEN NoCall
                                ELSE Call(opname, None, None, None, mode)]
                /\ AfterCmd(c, cmd, response, req, "done",
                            Ret("response", code, response.text))
        /\ UNCHANGED <<facade, interleave, devVars, lastCall>>

SUNAPI_continuous_move(c, focus, code) ==
    Checked(c, "continuous_move", "continuous", focus, code)

SUNAPI_swing_control(c, mode, code) == Checked(c, "swing_control", "swing", mode, code)

SUNAPI_group_control(c, mode, code) == Checked(c, "group_control", "group", mode, code)

SUNAPI_tour_control(c, mode, code) == Checked(c, "tour_control", "tour", mode, code)

SUNAPI_trace_control(c, mode, code) == Checked(c, "trace_control", "trace", mode, code)

(***************************************************************************)
(* VAPIXCamera: relative_move hands its arguments to the device,            *)
(* get_ptz_status decodes the position text.                                *)
(***************************************************************************)
VAPIX_get_ptz_status(text) == << Field(text, 0), Field(text, 1), Field(text, 2) >>

VAPIX_get_ptz_status_call(c, code) ==
    LET req == Request("query", None, None, None, Some("position"))
        response == Response(code, StatusText)
        cmd == VAPIX_cmd(response)
        ok == Parses(response.text)
    IN  /\ facade = "vapix"
        /\ CanBegin(c)
        /\ call' = [call EXCEPT ![c] =
                        IF cmd.exits THEN NoCall
                        ELSE Call("get_ptz_status", None, None, None, None)]
        /\ AfterCmd(c, cmd, response, req, IF ok THEN "done" ELSE "raised",
                    IF ok THEN Ret("status", 0, VAPIX_get_ptz_status(response.text))
                    ELSE NoRet)
        /\ UNCHANGED <<facade, interleave, devVars, snap, lastCall>>

VAPIX_relative_move(c, pan, tilt, zoom, code) ==
    LET req == Request("rmove", pan, tilt, zoom, None)
        response == Response(code, << <<"OK">> >>)
        cmd == VAPIX_cmd(response)
    IN  /\ facade = "vapix"
        /\ CanBegin(c)
        /\ call' = [call EXCEPT ![c] =
                        IF cmd.exits THEN NoCall
                        ELSE Call("relative_move", pan, tilt, zoom, None)]
        /\ DeviceMoves(req, code)
        /\ AfterCmd(c, cmd, response, req, "done", Ret("response", code, response.text))
        /\ UNCHANGED <<facade, interleave, snap, lastCall>>

(***************************************************************************)
(* ONVIFCamera: relative_move and the preset operations.  A request of the  *)
(* ptz service either returns or raises (a fault of the device, a lost      *)
(* connection); snap is the list get_preset_complete returned.  Where the   *)
(* head of an ONVIF device stands is read by no operation modelled here, so *)
(* the motion a request starts is left out of the device's state.           *)
(***************************************************************************)
\* str(presets[i].Name)
PyStr(x) == IF x = None THEN "None" ELSE x[1]

\* a scan that stops one entry short of the end of the list
Matches_but_last(presets, preset_name) ==
    {i \in 1..(Len(presets) - 1) : PyStr(presets[i].Name) = preset_name}

Matches(presets, preset_name) ==
    {i \in 1..Len(presets) : PyStr(presets[i].Name) = preset_name}

\* a scan that starts at the second entry
FirstMatch_skip_first(presets, preset_name) ==
    LET m == Matches(presets, preset_name) \ {1}
    IN  IF m = {} THEN 0 ELSE CHOOSE i \in m : \A j \in m : i <= j

\* a scan of the list the device holds now, not of the list fetched
FirstMatch_on_device(presets, preset_name) ==
    LET m == Matches(devPresets, preset_name)
    IN  IF m = {} THEN 0 ELSE CHOOSE i \in m : \A j \in m : i <= j

\* a scan that keeps the last entry that matches
FirstMatch_last(presets, preset_name) ==
    LET m == Matches(presets, preset_name)
    IN  IF m = {} THEN 0 ELSE CHOOSE i \in m : \A j \in m : i >= j

\* a scan that is left holding the last entry when nothing matched
FirstMatch_else_last(presets, preset_name) ==
    LET m == Matches(presets, preset_name)
    IN  IF m = {} THEN Len(presets) ELSE CHOOSE i \in m : \A j \in m : i <= j

\* the index at which the scan of set_preset, remove_preset and go_to_preset
\* stops, 0 when it runs to the end
FirstMatch(presets, preset_name) ==
    LET m == Matches(presets, preset_name)
    IN  IF m = {} THEN 0 ELSE CHOOSE i \in m : \A j \in m : i <= j

\* the listing without its last entry
ONVIF_get_preset_short(ptz_get_presets) ==
    [i \in 1..(Len(ptz_get_presets) - 1) |-> <<i - 1, ptz_get_presets[i].Name>>]

ONVIF_get_preset(ptz_get_presets) ==
    [i \in 1..Len(ptz_get_presets) |-> <<i - 1, ptz_get_presets[i].Name>>]

\* the device's side: SetPreset without a token stores a new preset under a
\* token of the device's choosing (here the least one free), RemovePreset
\* drops the preset of the token
FreeToken ==
    CHOOSE t \in 1..(Len(devPresets) + 1) :
        /\ \A i \in 1..Len(devPresets) : devPresets[i].token # t
        /\ \A u \in 1..(t - 1) : \E i \in 1..Len(devPresets) : devPresets[i].token = u

DeviceSetPreset(preset_name) ==
    Append(devPresets, [token |-> FreeToken, Name |-> Some(preset_name)])

DeviceRemovePreset(token) ==
    SelectSeq(devPresets, LAMBDA p : p.token # token)

\* the end of a call that made no round trip through a command sender
Finish(c, next, value) ==
    /\ pc' = [pc EXCEPT ![c] = next]
    /\ ret' = [ret EXCEPT ![c] = IF next = "done" THEN value ELSE NoRet]
    /\ UNCHANGED <<reported, status, body>>

\* ONVIFCamera.relative_move: one RelativeMove request whose Translation is
\* the arguments
ONVIF_relative_move(c, pan, tilt, zoom, ok) ==
    /\ facade = "onvif"
    /\ CanBegin(c)
    /\ call' = [call EXCEPT ![c] = Call("relative_move", pan, tilt, zoom, None)]
    /\ sent' = [sent EXCEPT ![c] = << Request("RelativeMove", pan, tilt, zoom, None) >>]
    /\ Finish(c, IF ok THEN "done" ELSE "raised", Ret("response", 0, <<>>))
    /\ UNCHANGED <<facade, interleave, devVars, snap, lastCall>>

\* ONVIFCamera.set_home_position, up to the return of SetHomePosition
ONVIF_set_home_position_set(c, ok) ==
    /\ facade = "onvif"
    /\ CanBegin(c)
    /\ call' = [call EXCEPT ![c] = Call("set_home_position", None, None, None, None)]
    /\ sent' = [sent EXCEPT ![c] =
                    << Request("SetHomePosition", None, None, None, None) >>]
    /\ Finish(c, IF ok THEN "home" ELSE "raised", NoRet)
    /\ UNCHANGED <<facade, interleave, devVars, snap, lastCall>>

\* ONVIFCamera.set_home_position, from the Stop request to the return of the
\* response to SetHomePosition
ONVIF_set_home_position_stop(c, ok) ==
    /\ facade = "onvif"
    /\ pc[c] = "home"
    /\ call[c].op = "set_home_position"
    /\ sent' = [sent EXCEPT ![c] = Append(@, Request("Stop", None, None, None, None))]
    /\ Finish(c, IF ok THEN "done" ELSE "raised", Ret("response", 0, <<>>))
    /\ UNCHANGED <<facade, interleave, devVars, call, snap, lastCall>>

\* ONVIFCamera.get_preset
ONVIF_get_preset_call(c, ok) ==
    /\ facade = "onvif"
    /\ CanBegin(c)
    /\ call' = [call EXCEPT ![c] = Call("get_preset", None, None, None, None)]
    /\ sent' = [sent EXCEPT ![c] = << Request("GetPresets", None, None, None, None) >>]
    /\ Finish(c, IF ok THEN "done" ELSE "raised",
              Ret("presets", 0, ONVIF_get_preset(devPresets)))
    /\ UNCHANGED <<facade, interleave, devVars, snap, lastCall>>

\* set_preset, remove_preset and go_to_preset, up to the return of
\* get_preset_complete
FetchPresets(c, opname, preset_name, ok) ==
    /\ facade = "onvif"
    /\ CanBegin(c)
    /\ call' = [call EXCEPT ![c] = Call(opname, None, None, None, Some(preset_name))]
    /\ sent' = [sent EXCEPT ![c] = << Request("GetPresets", None, None, None, None) >>]
    /\ snap' = [snap EXCEPT ![c] = IF ok THEN devPresets ELSE None]
    /\ Finish(c, IF ok THEN "scan" ELSE "raised", NoRet)
    /\ UNCHANGED <<facade, interleave, devVars, lastCall>>

ONVIF_set_preset_list(c, preset_name, ok) ==
    FetchPresets(c, "set_preset", preset_name, ok)

\* ONVIFCamera.set_preset, from the scan to the return
ONVIF_set_preset_send(c, ok) ==
    LET preset_name == call[c].Arg[1]
        found == FirstMatch(snap[c], preset_name) # 0
        stored == ok /\ Len(devPresets) < MaxPresets
    IN  /\ facade = "onvif"
        /\ pc[c] = "scan"
        /\ call[c].op = "set_preset"
        /\ sent' = [sent EXCEPT ![c] =
                        IF found THEN @
                        ELSE Append(@, Request("SetPreset", None, None, None,
                                               Some(preset_name)))]
        /\ devPresets' = IF ~found /\ stored THEN DeviceSetPreset(preset_name)
                         ELSE devPresets
        /\ Finish(c, IF found \/ stored THEN "done" ELSE "raised",
                  IF found THEN RetNone ELSE Ret("response", 0, << FreeToken >>))
        /\ UNCHANGED <<facade, interleave, devPan, devTilt, devZoom, devMoving,
                       call, snap, lastCall>>

ONVIF_remove_preset_list(c, preset_name, ok) ==
    FetchPresets(c, "remove_preset", preset_name, ok)

\* ONVIFCamera.remove_preset, from the scan to the return
ONVIF_remove_preset_send(c, ok) ==
    LET preset_name == call[c].Arg[1]
        i == FirstMatch(snap[c], preset_name)
        found == i # 0
        removed == ok /\ \E k \in 1..Len(devPresets) : devPresets[k].token = snap[c][i].token
    IN  /\ facade = "onvif"
        /\ pc[c] = "scan"
        /\ call[c].op = "remove_preset"
        /\ sent' = [sent EXCEPT ![c] =
                        IF found
                        THEN Append(@, Request("RemovePreset", None, None, None,
                                               Some(snap[c][i].token)))
                        ELSE @]
        /\ devPresets' = IF found /\ removed THEN DeviceRemovePreset(snap[c][i].token)
                         ELSE devPresets
        /\ Finish(c, IF ~found \/ removed THEN "done" ELSE "raised",
                  IF found THEN Ret("response", 0, <<>>) ELSE RetNone)
        /\ UNCHANGED <<facade, interleave, devPan, devTilt, devZoom, devMoving,
                       call, snap, lastCall>>

ONVIF_go_to_preset_list(c, preset_position, ok) ==
    FetchPresets(c, "go_to_preset", preset_position, ok)

\* ONVIFCamera.go_to_preset, from the scan to the return
ONVIF_go_to_preset_send(c, ok) ==
    LET preset_position == call[c].Arg[1]
        i == FirstMatch(snap[c], preset_position)
        found == i # 0
        went == ok /\ \E k \in 1..Len(devPresets) : devPresets[k].token = snap[c][i].token
    IN  /\ facade = "onvif"
        /\ pc[c] = "scan"
        /\ call[c].op = "go_to_preset"
        /\ sent' = [sent EXCEPT ![c] =
                        IF found
                        THEN Append(@, Request("GotoPreset", None, None, None,
                                               Some(snap[c][i].token)))
                        ELSE @]
        /\ Finish(c, IF ~found \/ went THEN "done" ELSE "raised",
                  IF found THEN Ret("response", 0, <<>>) ELSE RetNone)
        /\ UNCHANGED <<facade, interleave, devVars, call, snap, lastCall>>

\* the caller takes the result (or the exception) and is free to call again
Return(c) ==
    /\ pc[c] \in {"done", "raised"}
    /\ lastCall' = IF call[c].op \in PresetOps
                   THEN [op |-> call[c].op, Arg |-> call[c].Arg, outcome |-> pc[c],
                         matches |-> IF pc[c] = "done"
                                     THEN Cardinality(Matches(snap[c], call[c].Arg[1]))
                                     ELSE 0]
                   ELSE lastCall
    /\ pc' = [pc EXCEPT ![c] = "idle"]
    /\ call' = [call EXCEPT ![c] = NoCall]
    /\ snap' = [snap EXCEPT ![c] = None]
    /\ sent' = [sent EXCEPT ![c] = <<>>]
    /\ reported' = [reported EXCEPT ![c] = <<>>]
    /\ ret' = [ret EXCEPT ![c] = NoRet]
    /\ status' = [status EXCEPT ![c] = 0]
    /\ body' = [body EXCEPT ![c] = <<>>]
    /\ UNCHANGED <<facade, interleave, devVars>>

(***************************************************************************)
(* Specification.  The camera object is an instance of one of the classes;  *)
(* the device of a SUNAPICamera or VAPIXCamera starts at any position with  *)
(* no preset, that of an ONVIFCamera with any list of presets.              *)
(***************************************************************************)
Facades == {"sunapi", "vapix", "onvif"}

InitialPresets ==
    UNION { { [i \in 1..k |-> [token |-> i, Name |-> f[i]]] : f \in [1..k -> DeviceNames] }
            : k \in 0..MaxPresets }

Init ==
    /\ facade \in Facades
    /\ interleave = FALSE
    /\ devPan \in (IF facade = "onvif" THEN {0} ELSE PanReadings)
    /\ devTilt \in (IF facade = "onvif" THEN {6000} ELSE TiltReadings)
    /\ devZoom \in (IF facade = "onvif" THEN {100} ELSE ZoomReadings)
    /\ devMoving = FALSE
    /\ devPresets \in (IF facade = "onvif" THEN InitialPresets ELSE { <<>> })
    /\ pc = [c \in Callers |-> "idle"]
    /\ call = [c \in Callers |-> NoCall]
    /\ snap = [c \in Callers |-> None]
    /\ sent = [c \in Callers |-> <<>>]
    /\ reported = [c \in Callers |-> <<>>]
    /\ ret = [c \in Callers |-> NoRet]
    /\ status = [c \in Callers |-> 0]
    /\ body = [c \in Callers |-> <<>>]
    /\ lastCall = [op |-> "", Arg |-> None, outcome |-> "", matches |-> 0]

Next ==
    \/ DeviceSettles
    \/ \E c \in Callers :
        \/ \E code \in StatusCodes : SUNAPI_get_ptz_status_call(c, code)
        \/ \E pan \in PanDeltas, tilt \in TiltDeltas, zoom \in ZoomDeltas,
              code \in StatusCodes :
                SUNAPI_relative_move_status(c, pan, tilt, zoom, code)
        \/ \E code \in StatusCodes : SUNAPI_relative_move_send(c, code)
        \/ \E focus \in ModeInputs, code \in StatusCodes :
                SUNAPI_continuous_move(c, focus, code)
        \/ \E mode \in ModeInputs, code \in StatusCodes :
                SUNAPI_swing_control(c, mode, code)
        \/ \E mode \in ModeInputs, code \in StatusCodes :
                SUNAPI_group_control(c, mode, code)
        \/ \E mode \in ModeInputs, code \in StatusCodes :
                SUNAPI_tour_control(c, mode, code)
        \/ \E mode \in ModeInputs, code \in StatusCodes :
                SUNAPI_trace_control(c, mode, code)
        \/ \E code \in StatusCodes : VAPIX_get_ptz_status_call(c, code)
        \/ \E pan \in {None, Some(200)}, tilt \in {None, Some(1500)},
              zoom \in {None, Some(1000)}, code \in StatusCodes :
                VAPIX_relative_move(c, pan, tilt, zoom, code)
        \/ \E pan \in {None, Some(50)}, tilt \in {Some(-25)}, zoom \in {None},
              ok \in BOOLEAN :
                ONVIF_relative_move(c, pan, tilt, zoom, ok)
        \/ \E ok \in BOOLEAN : ONVIF_set_home_position_set(c, ok)
        \/ \E ok \in BOOLEAN : ONVIF_set_home_position_stop(c, ok)
        \/ \E ok \in BOOLEAN : ONVIF_get_preset_call(c, ok)
        \/ \E n \in PresetNames, ok \in BOOLEAN : ONVIF_set_preset_list(c, n, ok)
        \/ \E ok \in BOOLEAN : ONVIF_set_preset_send(c, ok)
        \/ \E n \in PresetNames, ok \in BOOLEAN : ONVIF_remove_preset_list(c, n, ok)
        \/ \E ok \in BOOLEAN : ONVIF_remove_preset_send(c, ok)
        \/ \E n \in PresetNames, ok \in BOOLEAN : ONVIF_go_to_preset_list(c, n, ok)
        \/ \E ok \in BOOLEAN : ONVIF_go_to_preset_send(c, ok)
        \/ Return(c)

Spec == Init /\ [][Next]_vars

(***************************************************************************)
(* Overlapping calls.  Two call sites drive the same device with nothing    *)
(* serialising them: the steps of a SUNAPICamera.relative_move or an         *)
(* ONVIFCamera.set_preset of one caller interleave freely with those of the *)
(* other, and the device finishes a motion whenever no result is pending.   *)
(***************************************************************************)
RacePresets == { <<>> } \cup { << [token |-> 1, Name |-> n] >> : n \in DeviceNames }

InitRace ==
    /\ facade \in {"sunapi", "onvif"}
    /\ interleave = TRUE
    /\ devPan \in (IF facade = "onvif" THEN {0} ELSE PanReadings)
    /\ devTilt \in (IF facade = "onvif" THEN {6000} ELSE TiltReadings)
    /\ devZoom \in (IF facade = "onvif" THEN {100} ELSE ZoomReadings)
    /\ devMoving = FALSE
    /\ devPresets \in (IF facade = "onvif" THEN RacePresets ELSE { <<>> })
    /\ pc = [c \in Callers |-> "idle"]
    /\ call = [c \in Callers |-> NoCall]
    /\ snap = [c \in Callers |-> None]
    /\ sent = [c \in Callers |-> <<>>]
    /\ reported = [c \in Callers |-> <<>>]
    /\ ret = [c \in Callers |-> NoRet]
    /\ status = [c \in Callers |-> 0]
    /\ body = [c \in Callers |-> <<>>]
    /\ lastCall = [op |-> "", Arg |-> None, outcome |-> "", matches |-> 0]

NextRace ==
    \/ DeviceSettles
    \/ \E c \in Callers :
        \/ \E pan \in {Some(200), Some(500)} :
                SUNAPI_relative_move_status(c, pan, None, None, 200)
        \/ SUNAPI_relative_move_send(c, 200)
        \/ \E ok \in BOOLEAN : ONVIF_set_preset_list(c, "Gate", ok)
        \/ \E ok \in BOOLEAN : ONVIF_set_preset_send(c, ok)
        \/ Return(c)

SpecRace == InitRace /\ [][NextRace]_vars

(***************************************************************************)
(* SUNAPICamera.relative_move: properties of the command it issues.  In a   *)
(* finished relative_move, snap is the decoded status, call the arguments   *)
(* and sent[c][2] the move command.                                         *)
(***************************************************************************)
MoveDone(c) == facade = "sunapi" /\ pc[c] = "done" /\ call[c].op = "relative_move"

MoveCommand(c) == sent[c][2]

\* C1 as stated: the move is a "relative" command when the queried pan is 0
\* and an "absolute" command for every other queried pan.
C1_relative_at_zero ==
    \A c \in Callers :
        MoveDone(c) =>
            MoveCommand(c).api = (IF snap[c][1] = 0 THEN "relative" ELSE "absolute")

\* C1 amended: after the status query exactly one move command is issued, an
\* "absolute" command when the queried pan is 0 and a "relative" command for
\* every other queried pan.
C1_absolute_at_zero ==
    \A c \in Callers :
        MoveDone(c) =>
            /\ Len(sent[c]) = 2
            /\ sent[c][1].api = "query"
            /\ MoveCommand(c).api = (IF snap[c][1] = 0 THEN "absolute" ELSE "relative")

\* a move issued after a reading of 359.99, decoded as 0
C1_witness ==
    \E c \in Callers :
        /\ MoveDone(c)
        /\ devPan = 35999
        /\ snap[c][1] = 0
        /\ MoveCommand(c).api = "absolute"

\* C2: for a current tilt t in [-20, 90] and a non-null tilt delta, the tilt
\* delta d' of the issued command keeps -20 <= t + d' <= 90.
C2_tilt_projection_in_range ==
    \A c \in Callers :
        (/\ MoveDone(c)
         /\ call[c].Tilt # None
         /\ TiltMin <= snap[c][2] /\ snap[c][2] <= TiltMax)
        => (/\ TiltMin <= snap[c][2] + MoveCommand(c).Tilt[1]
            /\ snap[c][2] + MoveCommand(c).Tilt[1] <= TiltMax)

\* C3 as stated: for a current pan p in [0.02, 359.98] and a non-null pan
\* delta, the pan delta d' of the issued command gives p + d' in [0, 360).
C3_pan_projection_half_open ==
    \A c \in Callers :
        (/\ MoveDone(c)
         /\ call[c].Pan # None
         /\ PanEps <= snap[c][1] /\ snap[c][1] <= FullTurn - PanEps)
        => (/\ 0 <= snap[c][1] + MoveCommand(c).Pan[1]
            /\ snap[c][1] + MoveCommand(c).Pan[1] < FullTurn)

\* C3 amended: for a current pan p in [0.02, 359.98] and a non-null pan delta
\* d of at most one full turn (-360 <= d <= 360), the pan delta d' of the
\* issued command gives p + d' in [0, 360], 360 included.
C3_pan_projection_closed ==
    \A c \in Callers :
        (/\ MoveDone(c)
         /\ call[c].Pan # None
         /\ Abs(call[c].Pan[1]) <= FullTurn
         /\ PanEps <= snap[c][1] /\ snap[c][1] <= FullTurn - PanEps)
        => (/\ 0 <= snap[c][1] + MoveCommand(c).Pan[1]
            /\ snap[c][1] + MoveCommand(c).Pan[1] <= FullTurn)

\* a delta that crosses the full turn and is wrapped
C3_witness ==
    \E c \in Callers :
        /\ MoveDone(c)
        /\ snap[c][1] = 35800
        /\ call[c].Pan = Some(500)
        /\ MoveCommand(c).Pan = Some(-35500)

C5_zoom_delta ==
    \A c \in Callers :
        (/\ MoveDone(c)
         /\ call[c].Zoom # None
         /\ ZoomMin <= snap[c][3] /\ snap[c][3] <= ZoomMax)
        => LET z == snap[c][3]
               d == call[c].Zoom[1]
           IN  MoveCommand(c).Zoom[1] =
                   (IF z + d > ZoomMax THEN ZoomMax - z
                    ELSE IF z + d < ZoomMin THEN ZoomMin - z
                    ELSE d)

\* a zoom delta that falls below the minimum
C5_witness ==
    \E c \in Callers :
        /\ MoveDone(c)
        /\ snap[c][3] = ZoomMin
        /\ call[c].Zoom = Some(-1000)
        /\ MoveCommand(c).Zoom = Some(0)

(***************************************************************************)
(* SUNAPICamera.get_ptz_status.                                             *)
(***************************************************************************)
\* the pan of the status text a caller has just received
Reading(c) == Field(body[c], 0)

NearZeroOrFullTurn(p) == Abs(p) < PanEps \/ Abs(FullTurn - p) < PanEps

\* C6: get_ptz_status returns pan exactly 0 whenever the pan the device
\* reports is less than 0.02 from 0 or less than 0.02 from 360, as a call of
\* its own and as the query of relative_move, whose dispatch test then sees
\* the same value for both readings.
C6_pan_read_as_zero ==
    \A c \in Callers :
        /\ (/\ facade = "sunapi"
            /\ pc[c] = "done" /\ call[c].op = "get_ptz_status"
            /\ NearZeroOrFullTurn(Reading(c)))
           => ret[c].value[1] = 0
        /\ (/\ facade = "sunapi"
            /\ pc[c] = "move" /\ call[c].op = "relative_move"
            /\ NearZeroOrFullTurn(Reading(c)))
           => (snap[c][1] = 0 /\ Dispatch(snap[c][1]) = Dispatch(0))

\* a reading of 359.99 returned as 0
C6_witness ==
    \E c \in Callers :
        /\ facade = "sunapi"
        /\ pc[c] = "done" /\ call[c].op = "get_ptz_status"
        /\ Reading(c) = 35999
        /\ ret[c].value[1] = 0

(***************************************************************************)
(* ONVIFCamera: presets.  lastCall is the preset call (by any caller) that  *)
(* completed before the call in progress; get_preset calls in between       *)
(* leave the device as it is.                                               *)
(***************************************************************************)
After(opname) ==
    /\ lastCall.op = opname
    /\ lastCall.outcome = "done"

\* C7: set_preset(name) right after a set_preset(name) that returned issues
\* no SetPreset request, returns None and leaves the device's preset list as
\* it fetched it, so no second preset of that name is created.
C7_second_set_preset_is_noop ==
    \A c \in Callers :
        (/\ pc[c] = "done" /\ call[c].op = "set_preset"
         /\ After("set_preset") /\ lastCall.Arg = call[c].Arg)
        => (/\ ret[c] = RetNone
            /\ Len(sent[c]) = 1 /\ sent[c][1].api = "GetPresets"
            /\ devPresets = snap[c])

\* the second of two set_preset("Gate"), the first of which stored the preset
C7_witness ==
    \E c \in Callers :
        /\ pc[c] = "done" /\ call[c].op = "set_preset"
        /\ After("set_preset") /\ lastCall.Arg = call[c].Arg
        /\ lastCall.matches = 0
        /\ call[c].Arg = Some("Gate")
        /\ ret[c] = RetNone

Listing(c) == pc[c] = "done" /\ call[c].op = "get_preset"

\* C8 as stated: for every device preset list, get_preset() right after
\* set_preset(n) returns an entry named n, and get_preset() right after
\* remove_preset(n) returns no entry named n.
C8_listing_follows_name ==
    \A c \in Callers :
        Listing(c) =>
            /\ After("set_preset")
                => \E k \in 1..Len(ret[c].value) : ret[c].value[k][2] = lastCall.Arg
            /\ After("remove_preset")
                => \A k \in 1..Len(ret[c].value) : ret[c].value[k][2] # lastCall.Arg

\* C8 amended: get_preset() right after set_preset(n) returns an entry whose
\* name, as str() renders it, is n; get_preset() right after remove_preset(n)
\* returns no such entry when the list remove_preset fetched had at most one
\* (remove_preset removes the first entry whose str(Name) is n, and only it).
C8_listing_follows_first_match ==
    \A c \in Callers :
        Listing(c) =>
            /\ After("set_preset")
                => \E k \in 1..Len(ret[c].value) :
                        PyStr(ret[c].value[k][2]) = lastCall.Arg[1]
            /\ (After("remove_preset") /\ lastCall.matches <= 1)
                => \A k \in 1..Len(ret[c].value) :
                        PyStr(ret[c].value[k][2]) # lastCall.Arg[1]

\* a listing right after the removal of the only preset named "Gate", with
\* other presets left
C8_witness ==
    \E c \in Callers :
        /\ Listing(c)
        /\ After("remove_preset")
        /\ lastCall.Arg = Some("Gate")
        /\ lastCall.matches = 1
        /\ Len(ret[c].value) > 0

(***************************************************************************)
(* The command senders of SUNAPICamera and VAPIXCamera.  status is the      *)
(* status code of the last response a sender handled for the caller.        *)
(***************************************************************************)
CheckedOps == {"continuous_move", "swing_control", "group_control", "tour_control",
               "trace_control"}

\* whether the call in progress returns the response of its one command
ReturnsResponse(c) ==
    \/ facade = "sunapi" /\ call[c].op \in CheckedOps
    \/ facade = "vapix" /\ call[c].op = "relative_move"

\* C9: a response with status 200 or 204 goes back to the caller with
\* nothing reported; for every other status the decoded body is reported; on
\* 401 the process ends and the call returns nothing, and it ends on no
\* other status.
C9_sender_statuses ==
    \A c \in Callers :
        /\ (status[c] \in {200, 204})
           => (/\ reported[c] = <<>>
               /\ pc[c] # "exited"
               /\ ret[c].kind = "response" => ret[c].code = status[c])
        /\ (status[c] \notin {0, 200, 204})
           => reported[c] = << <<"%s", get_text(ErrorBody(status[c]))>> >>
        /\ (status[c] = 401) => (pc[c] = "exited" /\ ret[c] = NoRet)
        /\ (status[c] \notin {0, 401} /\ ReturnsResponse(c))
           => (pc[c] = "done" /\ ret[c].kind = "response" /\ ret[c].code = status[c])
        /\ (pc[c] = "exited") => status[c] = 401

\* a VAPIXCamera call ended by a 401
C9_witness ==
    \E c \in Callers :
        /\ facade = "vapix"
        /\ status[c] = 401
        /\ pc[c] = "exited"
        /\ reported[c] # <<>>

(***************************************************************************)
(* SUNAPICamera: focus and mode arguments.                                  *)
(***************************************************************************)
\* C10: in continuous_move, swing_control, group_control, tour_control and
\* trace_control a focus or mode outside the operation's allowed set makes
\* the call raise with no request sent and no response received.
C10_rejected_before_any_request ==
    \A c \in Callers :
        (/\ call[c].op \in CheckedOps
         /\ call[c].Arg \notin (IF call[c].op = "continuous_move" THEN ContinuousFocus
                                ELSE IF call[c].op = "swing_control" THEN SwingModes
                                ELSE StartStop))
        => (/\ pc[c] = "raised"
            /\ sent[c] = <<>>
            /\ status[c] = 0
            /\ reported[c] = <<>>)

\* group_control called with a mode of swing_control
C10_witness ==
    \E c \in Callers :
        /\ call[c].op = "group_control"
        /\ call[c].Arg = Some("Pan")
        /\ pc[c] = "raised"
        /\ sent[c] = <<>>

(***************************************************************************)
(* ONVIFCamera.remove_preset and go_to_preset.  After the list fetch the    *)
(* caller is at "scan" with snap the list fetched.                          *)
(***************************************************************************)
ByName == {"remove_preset", "go_to_preset"}

\* whether caller c has fetched a list in which no entry has the name asked for
ScansNoMatch(c) ==
    /\ pc[c] = "scan"
    /\ call[c].op \in ByName
    /\ Matches(snap[c], call[c].Arg[1]) = {}

\* C11: when no preset of the list just fetched has the requested name,
\* remove_preset and go_to_preset return None, and do not raise, with the
\* list fetch the only request issued: no RemovePreset or GotoPreset request
\* is sent, and the device's presets stay as they are.
C11_no_match_returns_none ==
    [][\A c \in Callers :
          (ScansNoMatch(c) /\ pc'[c] # "scan")
          => (/\ pc'[c] = "done"
              /\ ret'[c] = RetNone
              /\ sent'[c] = << Request("GetPresets", None, None, None, None) >>
              /\ devPresets' = devPresets)]_vars

\* go_to_preset("Gate") returned None on a device that holds presets, none
\* of them named "Gate"
C11_witness ==
    \E c \in Callers :
        /\ pc[c] = "done" /\ call[c].op = "go_to_preset"
        /\ call[c].Arg = Some("Gate")
        /\ Len(snap[c]) = 2
        /\ Matches(snap[c], "Gate") = {}
        /\ ret[c] = RetNone
        /\ Len(sent[c]) = 1

(***************************************************************************)
(* relative_move on the three facades.                                      *)
(***************************************************************************)
RelativeMoveDone(c) == pc[c] = "done" /\ call[c].op = "relative_move"

\* the move command the rules of SUNAPICamera.relative_move give for the
\* arguments a at the position (pan, tilt, zoom) p
CommandAt(p, a) ==
    [api |-> IF p[1] = 0 THEN "absolute" ELSE "relative",
     Pan |-> IF a.Pan = None THEN None
             ELSE IF p[1] + a.Pan[1] > FullTurn THEN Some(a.Pan[1] - FullTurn)
             ELSE IF p[1] + a.Pan[1] < 0 THEN Some(a.Pan[1] + FullTurn)
             ELSE a.Pan,
     Tilt |-> IF a.Tilt = None THEN None
              ELSE IF p[2] + a.Tilt[1] > TiltMax THEN Some(TiltMax - p[2])
              ELSE IF p[2] + a.Tilt[1] < TiltMin THEN Some(TiltMin + Abs(p[2]))
              ELSE a.Tilt,
     Zoom |-> IF a.Zoom = None THEN None
              ELSE IF p[3] + a.Zoom[1] > ZoomMax THEN Some(ZoomMax - p[3])
              ELSE IF p[3] + a.Zoom[1] < ZoomMin THEN Some(ZoomMin - p[3])
              ELSE a.Zoom,
     Arg |-> None]

\* the position a status query would decode now
PositionNow == << IF devPan < PanEps \/ Abs(FullTurn - devPan) < PanEps THEN 0 ELSE devPan,
                  devTilt, devZoom >>

\* C12 as stated: on each of the three facades a finished relative_move has
\* issued two requests, a query of the position and then the move.
C12_every_facade_queries_first ==
    \A c \in Callers :
        RelativeMoveDone(c) =>
            /\ Len(sent[c]) = 2
            /\ sent[c][1].api = "query"

\* C12 amended: SUNAPICamera.relative_move first queries the position (the
\* query is its only request until the status is decoded, and the decoded
\* status is that of the device) and then issues one move command, whose
\* deltas are computed from the queried position: the pan delta less a full
\* turn if the projected pan is above 360 and plus a full turn if below 0,
\* the tilt delta 90 - t if the projected tilt is above 90 and -20 + abs(t)
\* if below -20, the zoom delta 40 - z if the projected zoom is above 40 and
\* 1 - z if below 1.  ONVIFCamera.relative_move and VAPIXCamera.relative_move
\* issue one request, the move, carrying the arguments as they came.
C12_only_sunapi_queries_first ==
    \A c \in Callers :
        /\ (facade = "sunapi" /\ pc[c] = "move")
           => (/\ sent[c] = << Request("query", None, None, None, None) >>
               /\ <<snap[c][1], snap[c][2], snap[c][3]>> = PositionNow)
        /\ (facade = "sunapi" /\ RelativeMoveDone(c))
           => (/\ Len(sent[c]) = 2
               /\ sent[c][1].api = "query"
               /\ sent[c][2] = CommandAt(snap[c], call[c]))
        /\ (facade # "sunapi" /\ RelativeMoveDone(c))
           => sent[c] = << Request(IF facade = "vapix" THEN "rmove" ELSE "RelativeMove",
                                   call[c].Pan, call[c].Tilt, call[c].Zoom, None) >>

\* VAPIXCamera.relative_move(tilt=15) with the device at tilt 80: one request,
\* carrying 15
C12_witness ==
    \E c \in Callers :
        /\ facade = "vapix"
        /\ RelativeMoveDone(c)
        /\ devTilt = 8000
        /\ call[c].Tilt = Some(1500)
        /\ Len(sent[c]) = 1
        /\ sent[c][1].api = "rmove"
        /\ sent[c][1].Tilt = Some(1500)

(***************************************************************************)
(* The requests of one call.  sent[c] is what the call of caller c has      *)
(* issued so far, in order.                                                 *)
(***************************************************************************)
Fetches == {"query", "GetPresets"}

MidCall(c) == pc[c] \in {"move", "scan", "home"}

\* the step that takes a call on from where it stands
Continue(c) ==
    \/ \E code \in StatusCodes : SUNAPI_relative_move_send(c, code)
    \/ \E ok \in BOOLEAN : ONVIF_set_preset_send(c, ok)
    \/ \E ok \in BOOLEAN : ONVIF_remove_preset_send(c, ok)
    \/ \E ok \in BOOLEAN : ONVIF_go_to_preset_send(c, ok)
    \/ \E ok \in BOOLEAN : ONVIF_set_home_position_stop(c, ok)

\* C13 as stated: a call issues at most two requests, and when it issues two
\* the first is a status or list fetch and the second the command.
C13_fetch_then_command ==
    \A c \in Callers :
        /\ Len(sent[c]) <= 2
        /\ Len(sent[c]) = 2 => sent[c][1].api \in Fetches

\* C13 amended: a call issues at most two requests, one after the other and
\* never the same request twice; the two are a status or list fetch followed
\* by the command, except in ONVIFCamera.set_home_position, where they are
\* SetHomePosition followed by Stop; a call that has issued its first request
\* and not ended can always go on, and ends with its next step (by
\* returning, by raising or, on a 401 in SUNAPICamera and VAPIXCamera, by
\* ending the process).
C13_at_most_two_requests ==
    \A c \in Callers :
        /\ Len(sent[c]) <= 2
        /\ Len(sent[c]) = 2
           => (/\ sent[c][1] # sent[c][2]
               /\ pc[c] \in {"done", "raised"}
               /\ IF call[c].op = "set_home_position"
                  THEN sent[c][1].api = "SetHomePosition" /\ sent[c][2].api = "Stop"
                  ELSE sent[c][1].api \in Fetches /\ sent[c][2].api \notin Fetches)
        /\ MidCall(c) => (Len(sent[c]) = 1 /\ ENABLED Continue(c))

\* set_home_position returned after SetHomePosition and Stop
C13_witness ==
    \E c \in Callers :
        /\ pc[c] = "done" /\ call[c].op = "set_home_position"
        /\ Len(sent[c]) = 2
        /\ sent[c][1].api = "SetHomePosition"
        /\ sent[c][2].api = "Stop"

(***************************************************************************)
(* Overlapping SUNAPICamera.relative_move calls.  A move leaves the         *)
(* device's position as it is until the motion ends, and a motion does not  *)
(* end while a result is pending: at a finished relative_move PositionNow   *)
(* is the position the device had when the command was sent.                *)
(***************************************************************************)
\* C14: when relative_move calls overlap, the command of each is the one the
\* rules give at the position the call read, whatever the position of the
\* device when the command is sent; it can differ from the command the
\* rules give at that later position in its delta and in its dispatch (the
\* witness).
C14_command_from_snapshot ==
    \A c \in Callers :
        MoveDone(c) =>
            /\ Len(sent[c]) = 2
            /\ sent[c][1].api = "query"
            /\ sent[c][2] = CommandAt(snap[c], call[c])

\* relative_move(pan=5) read pan 358; by the time it sent its command the
\* device stood at pan 0.  It sent "relative" with delta -355, where the
\* position at sending gives "absolute" with delta 5
C14_witness ==
    \E c \in Callers :
        /\ MoveDone(c)
        /\ call[c].Pan = Some(500)
        /\ snap[c][1] = 35800
        /\ devPan = 0
        /\ sent[c][2].api = "relative" /\ sent[c][2].Pan = Some(-35500)
        /\ CommandAt(PositionNow, call[c]).api = "absolute"
        /\ CommandAt(PositionNow, call[c]).Pan = Some(500)

(***************************************************************************)
(* ONVIFCamera.remove_preset and go_to_preset on a list in which several    *)
(* entries have the name asked for.                                         *)
(***************************************************************************)
\* the sequence without its i-th entry
Without(seq, i) == [k \in 1..(Len(seq) - 1) |-> IF k < i THEN seq[k] ELSE seq[k + 1]]

\* whether the call of caller c has ended, on a list with several entries of
\* the name asked for
EndedOnSeveral(c) ==
    /\ call[c].op \in ByName
    /\ pc[c] \in {"done", "raised"}
    /\ Cardinality(Matches(snap[c], call[c].Arg[1])) >= 2

\* C15: when several presets of the fetched list have the requested name,
\* remove_preset and go_to_preset issue, after the list fetch, exactly one
\* RemovePreset / GotoPreset request, with the token of the first such entry
\* in the order of the list; a remove_preset that returned has taken that
\* entry and no other off the device, and go_to_preset leaves the device's
\* list as it is.
C15_first_match_only ==
    \A c \in Callers :
        EndedOnSeveral(c) =>
            LET m == Matches(snap[c], call[c].Arg[1])
                first == CHOOSE i \in m : \A j \in m : i <= j
                removes == call[c].op = "remove_preset"
            IN  /\ Len(sent[c]) = 2
                /\ sent[c][1].api = "GetPresets"
                /\ sent[c][2] = Request(IF removes THEN "RemovePreset" ELSE "GotoPreset",
                                         None, None, None, Some(snap[c][first].token))
                /\ devPresets = IF removes /\ pc[c] = "done"
                                THEN Without(snap[c], first)
                                ELSE snap[c]

\* remove_preset("Gate") on a list whose second and third entries are named
\* "Gate": the request has the token of the second, the third stays
C15_witness ==
    \E c \in Callers :
        /\ pc[c] = "done" /\ call[c].op = "remove_preset"
        /\ call[c].Arg = Some("Gate")
        /\ Matches(snap[c], "Gate") = {2, 3}
        /\ sent[c][2].Arg = Some(snap[c][2].token)
        /\ devPresets = << snap[c][1], snap[c][3] >>

(***************************************************************************)
(* Overlapping ONVIFCamera.set_preset calls.                                *)
(***************************************************************************)
\* whether set_preset(n) of caller c has returned after a fetch that showed
\* no entry named n
SetPassed(c, n) ==
    /\ pc[c] = "done" /\ call[c].op = "set_preset"
    /\ call[c].Arg = Some(n)
    /\ Matches(snap[c], n) = {}

\* C16: when set_preset calls overlap, each decides on the list it fetched:
\* a call that returned has issued SetPreset exactly when that list had no
\* entry of the name, whatever the device held by then; and when the calls
\* of both callers for one name have passed the name check and returned,
\* the device holds at least two presets of that name.
C16_both_pass_name_check ==
    /\ \A c \in Callers :
          (pc[c] = "done" /\ call[c].op = "set_preset")
          => IF Matches(snap[c], call[c].Arg[1]) = {}
             THEN /\ Len(sent[c]) = 2
                  /\ sent[c][2] = Request("SetPreset", None, None, None, call[c].Arg)
                  /\ ret[c].kind = "response"
             ELSE /\ Len(sent[c]) = 1
                  /\ ret[c] = RetNone
    /\ \A n \in PresetNames :
          (\A c \in Callers : SetPassed(c, n))
          => Cardinality({i \in 1..Len(devPresets) : devPresets[i].Name = Some(n)}) >= 2

\* two set_preset("Gate") both fetched the empty list and both stored a
\* preset: the device holds two presets named "Gate"
C16_witness ==
    /\ \A c \in Callers : SetPassed(c, "Gate") /\ snap[c] = <<>> /\ Len(sent[c]) = 2
    /\ Len(devPresets) = 2
    /\ devPresets[1].Name = Some("Gate")
    /\ devPresets[2].Name = Some("Gate")
    /\ devPresets[1].token # devPresets[2].token

(***************************************************************************)
(* The names of the device's presets under calls that do not overlap.       *)
(***************************************************************************)
DistinctNames(presets) ==
    \A i, j \in 1..Len(presets) : i # j => presets[i].Name # presets[j].Name

\* C17: under calls that do not overlap (set_preset, remove_preset,
\* go_to_preset, get_preset and the other operations, nothing else changing
\* the device), no step takes a device preset list with pairwise distinct
\* names to one in which two presets have the same name.
C17_names_stay_distinct ==
    [][DistinctNames(devPresets) => DistinctNames(devPresets')]_vars

\* set_preset("Gate") stored a third preset on a device that held one with
\* no name and one named "None"
C17_witness ==
    \E c \in Callers :
        /\ pc[c] = "done" /\ call[c].op = "set_preset"
        /\ call[c].Arg = Some("Gate")
        /\ Len(snap[c]) = 2
        /\ DistinctNames(snap[c])
        /\ ret[c].kind = "response"
        /\ Len(devPresets) = 3
        /\ devPresets[3].Name = Some("Gate")
        /\ DistinctNames(devPresets)

====
